---- MODULE Spec2Model ----
(***************************************************************************)
(* A model of ntfy-agent's process monitor: the daemon                      *)
(* (src/src/ml-monitor-daemon.py, class MLMonitorDaemon) that polls the     *)
(* process table, tracks python processes, notifies on termination and      *)
(* persists its tracked set to a JSON state file, and the viewer            *)
(* (src/src/ml-monitor-ui.py, class MLMonitorUI) that reads that file.      *)
(*                                                                          *)
(* The process table, the clock, the notification transport, the GPU query  *)
(* and the file system are the environment: they change between any two     *)
(* steps of the daemon and of the viewer.                                   *)
(***************************************************************************)
EXTENDS Integers, Sequences, FiniteSets, TLC

(* ------------------------------ bounds --------------------------------- *)

\* pids 1..MaxPid are the other processes of the host
MaxPid == 1
\* the wall clock runs from 0 to MaxClock
MaxClock == 1

(* -------------------------- program constants -------------------------- *)

\* os.getpid(): the daemon's own pid (a python3 process for as long as it runs)
SelfPid == 0

\* the pids of the process table, the pids a state file left by an earlier
\* run names, and all pids the daemon can come to hold
Pids == 1..MaxPid
FilePids == {1, 2}
AllPids == {SelfPid} \cup Pids \cup FilePids

\* proc.info['name'] is compared with these two
PythonNames == {"python", "python3"}
ProcNames == PythonNames \cup {"bash"}
\* psutil.Process(proc.ppid()) or parent.name() raising
LookupFailures == {"NoSuchProcess", "AccessDenied"}
\* parent.name(), or the exception the parent lookup raised
ParentKinds == {"python3", "bash"} \cup LookupFailures
\* " ".join(cmdline), or "Unknown" for an empty command line
Cmdlines == {"train.py", "Unknown"}
Users == {"al"}
\* get_gpu_info_for_process: None, or {'used_memory': ...}
GpuVals == {"None", "used_memory"}

NoProc == [name |-> "none"]

VARIABLES
  procs,            \* the host's process table: pid -> process or NoProc
  clock,            \* datetime.now()
  gpuTool,          \* nvidia-smi: "absent" (the query fails) or "present"
  fs,               \* the state directory: "ok", "readonly" (open fails), "nodir" (makedirs fails)
  file,             \* the state file
  pc,               \* the daemon's position in run()
  inFinally,        \* the daemon is in run()'s finally block
  tracked_processes,\* self.tracked_processes
  stop_event,       \* self.stop_event
  current_pids,     \* check_process_status: pids still to examine
  terminated_pids,  \* check_process_status: pids marked for removal
  ui_tracked,       \* the viewer's self.tracked_processes (the displayed list)
  show_all,         \* the viewer's self.show_all
  sends,            \* history: send_notification calls per pid in the current cycle
  sendFailed,       \* history: pids whose notification returned False in the current cycle
  cycleStart,       \* history: pid -> identity of the entries tracked when the cycle began
  cycleLive,        \* history: the python pids the current cycle's process_iter reported
  firstCycle,       \* history: no poll cycle has begun yet
  loadFailed,       \* history: load_state logged "Failed to load state"
  fileBefore,       \* history: the state file as the save_state in progress found it
  sort_by,          \* MLMonitorUI.sort_by
  sort_reverse,     \* MLMonitorUI.sort_reverse
  cycleClock,       \* history: the clock when the current poll cycle began
  stopObserved,     \* history: the loop test found stop_event set
  exitTracked       \* history: the tracked set the previous daemon instance ended
                    \* with, kept until this instance's second cycle begins

envVars == <<procs, clock, gpuTool, fs>>
daemonVars == <<pc, inFinally, tracked_processes, stop_event, current_pids, terminated_pids>>
uiVars == <<ui_tracked, show_all, sort_by, sort_reverse>>
histVars == <<sends, sendFailed, cycleStart, cycleLive, firstCycle, loadFailed,
              cycleClock, stopObserved, exitTracked>>
vars == <<envVars, file, daemonVars, uiVars, histVars, fileBefore>>

(* ------------------------------ helpers -------------------------------- *)

EmptyMap == [p \in {} |-> 0]

Restrict(f, S) == [p \in S |-> f[p]]

\* str(pid) and int(pid_str): the decimal text of a pid
PidStr(pid) == [decimal |-> pid]
ParsePidOK(s) == "decimal" \in DOMAIN s
ParsePid(s) == s.decimal

\* datetime.isoformat() and datetime.fromisoformat()
IsoFormat(t) == [iso |-> t]
FromIsoOK(s) == "iso" \in DOMAIN s
FromIsoFormat(s) == s.iso

\* json.dump and json.load of gpu_info: None is written as null, the dict
\* {'used_memory': ...} as an object
JsonValue(v) == IF v = "None" THEN [null |-> TRUE] ELSE [object |-> v]
FromJsonValue(j) == IF "null" \in DOMAIN j THEN "None" ELSE j.object

\* the ascending sequence of a set of pids
RECURSIVE SortedSeq(_)
SortedSeq(S) ==
  IF S = {} THEN <<>>
  ELSE LET m == CHOOSE x \in S : \A y \in S : x <= y
       IN <<m>> \o SortedSeq(S \ {m})

(* --------------------------- the state file ---------------------------- *)

\* A state file: absent, or present with text that is or is not a complete JSON
\* document; items are the JSON object's members in file order.
NoFile == [exists |-> FALSE, json |-> FALSE, items |-> <<>>]
\* open(state_file, 'w') leaves a file of zero bytes
TruncatedFile == [exists |-> TRUE, json |-> FALSE, items |-> <<>>]
JsonFile(items) == [exists |-> TRUE, json |-> TRUE, items |-> items]

EntryFields == {"cmdline", "start_time", "username", "last_checked", "gpu_info"}

\* save_state: one member of serializable_state
SerializeEntry(pid, info) ==
  [key |-> PidStr(pid),
   info |-> [cmdline |-> info.cmdline,
             start_time |-> IsoFormat(info.start_time),
             username |-> info.username,
             last_checked |-> IsoFormat(info.last_checked),
             gpu_info |-> JsonValue(info.gpu_info)]]

\* save_state: serializable_state, in the order of the tracked pids
SerializableState(tp) ==
  LET order == SortedSeq(DOMAIN tp)
  IN [i \in 1..Len(order) |-> SerializeEntry(order[i], tp[order[i]])]

\* load_state / load_daemon_state: the loop body raises on this member
ItemOK(item) ==
  /\ ParsePidOK(item.key)
  /\ EntryFields \subseteq DOMAIN item.info
  /\ FromIsoOK(item.info.start_time)
  /\ FromIsoOK(item.info.last_checked)

\* a load loop that reads both timestamps from info['start_time']
DeserializeEntryOneStamp(item) ==
  [cmdline |-> item.info.cmdline,
   start_time |-> FromIsoFormat(item.info.start_time),
   username |-> item.info.username,
   last_checked |-> FromIsoFormat(item.info.start_time),
   gpu_info |-> FromJsonValue(item.info.gpu_info)]

\* load_state / load_daemon_state: the entry built from one member
DeserializeEntry(item) ==
  [cmdline |-> item.info.cmdline,
   start_time |-> FromIsoFormat(item.info.start_time),
   username |-> item.info.username,
   last_checked |-> FromIsoFormat(item.info.last_checked),
   gpu_info |-> FromJsonValue(item.info.gpu_info)]

\* the number of leading members the load loop converts before it raises
RECURSIVE GoodPrefixLen(_)
GoodPrefixLen(items) ==
  IF items = <<>> \/ ~ItemOK(Head(items)) THEN 0
  ELSE 1 + GoodPrefixLen(Tail(items))

\* the mapping a load loop has assigned after its first n members
RECURSIVE Assigned(_, _)
Assigned(items, n) ==
  IF n = 0 THEN EmptyMap
  ELSE LET before == Assigned(items, n - 1)
           pid == ParsePid(items[n].key)
       IN [p \in DOMAIN before \cup {pid} |->
             IF p = pid THEN DeserializeEntry(items[n]) ELSE before[p]]

\* json.load and the loop over its members complete without raising
LoadSucceeds(f) == f.json /\ GoodPrefixLen(f.items) = Len(f.items)

\* load_state: assigns into self.tracked_processes member by member, so the
\* members converted before an exception stay assigned
LoadStateResult(f) ==
  IF ~f.json THEN EmptyMap
  ELSE Assigned(f.items, GoodPrefixLen(f.items))

\* load_daemon_state: builds a local state and returns {} on any exception
LoadDaemonStateResult(f) ==
  IF ~f.exists THEN EmptyMap
  ELSE IF LoadSucceeds(f) THEN Assigned(f.items, Len(f.items))
  ELSE EmptyMap

(* ---------------------------- environment ------------------------------ *)

\* psutil.Process(pid) does not raise NoSuchProcess; the daemon's own process
\* lives until run() returns or raises, and a pid beyond the process table
\* (one a state file names) has no process
Alive(pid) ==
  IF pid = SelfPid THEN pc \notin {"stopped", "crashed"}
  ELSE pid \in Pids /\ procs[pid] # NoProc

\* a process starts under a free pid
Spawn(pid, names, parents, cmdlines) ==
  /\ procs[pid] = NoProc
  /\ \E n \in names, par \in parents, c \in cmdlines, u \in Users :
       procs' = [procs EXCEPT ![pid] =
                   [name |-> n, parent |-> par, cmdline |-> c, username |-> u,
                    ctime |-> clock]]
  /\ UNCHANGED <<clock, gpuTool, fs, file, daemonVars, uiVars, histVars, fileBefore>>

\* a process ends
Exit(pid) ==
  /\ procs[pid] # NoProc
  /\ procs' = [procs EXCEPT ![pid] = NoProc]
  /\ UNCHANGED <<clock, gpuTool, fs, file, daemonVars, uiVars, histVars, fileBefore>>

\* time passes
Tick ==
  /\ clock < MaxClock
  /\ clock' = clock + 1
  /\ UNCHANGED <<procs, gpuTool, fs, file, daemonVars, uiVars, histVars, fileBefore>>

\* the state directory becomes unwritable, or is removed under an unwritable
\* parent (the state file goes with it), or is restored
SetFs(v) ==
  /\ fs # v
  /\ fs' = v
  /\ file' = IF v = "nodir" THEN NoFile ELSE file
  /\ UNCHANGED <<procs, clock, gpuTool, daemonVars, uiVars, histVars, fileBefore>>

(* ------------------------- MLMonitorDaemon ----------------------------- *)

\* get_gpu_info_for_process: None when nvidia-smi is missing or fails or does
\* not list the pid, else the pid's used memory
GpuInfo == IF gpuTool = "absent" THEN {"None"} ELSE GpuVals

\* the fields of an entry that identify its process
Identity(info) ==
  [cmdline |-> info.cmdline, start_time |-> info.start_time, username |-> info.username]

\* process_iter: the pids whose name is 'python' or 'python3'
LivePython ==
  {p \in AllPids : Alive(p) /\ (p = SelfPid \/ procs[p].name \in PythonNames)}

\* a find_python_processes that starts new_processes as a copy of the tracked set
CarriedPidsAll(tp, live) == DOMAIN tp

\* find_python_processes: the tracked pids copied into new_processes
CarriedPids(tp, live) == DOMAIN tp \cap live

\* a find_python_processes that captures cmdline and start_time again for a
\* tracked pid
RecapturedEntry(tp, pid) ==
  IF pid = SelfPid THEN tp[pid]
  ELSE [tp[pid] EXCEPT !.cmdline = procs[pid].cmdline,
                       !.start_time = procs[pid].ctime]

\* find_python_processes: the entry copied for an already tracked pid
CarriedEntry(tp, pid) == tp[pid]

\* a find_python_processes without the inner try: the exception of the parent
\* lookup reaches the outer except clause and the process is skipped
AcceptedKnownParent(pid) ==
  /\ pid # SelfPid
  /\ procs[pid].parent \notin PythonNames \cup LookupFailures

\* find_python_processes: an untracked python process passes the own-pid test
\* and the parent test (a parent lookup that raises is passed over)
Accepted(pid) ==
  /\ pid # SelfPid
  /\ procs[pid].parent \notin PythonNames

\* find_python_processes: the entry stored for a newly seen process
NewEntry(pid, gpu) ==
  [cmdline |-> procs[pid].cmdline,
   start_time |-> procs[pid].ctime,
   username |-> procs[pid].username,
   last_checked |-> clock,
   gpu_info |-> gpu]

\* a load_state without the os.path.exists test: open() raises on a missing
\* file and the except clause logs "Failed to load state"
LoadStateNoExistsTest ==
  /\ pc = "load"
  /\ tracked_processes' = LoadStateResult(file)
  /\ loadFailed' = ~LoadSucceeds(file)
  /\ pc' = "loop"
  /\ UNCHANGED <<envVars, file, inFinally, stop_event, current_pids, terminated_pids,
                 uiVars, sends, sendFailed, cycleStart, cycleLive, firstCycle, fileBefore,
                 cycleClock, stopObserved, exitTracked>>

\* run(): load_state, then the signal handlers are registered
LoadState ==
  /\ pc = "load"
  /\ tracked_processes' = (IF file.exists THEN LoadStateResult(file) ELSE EmptyMap)
  /\ loadFailed' = (file.exists /\ ~LoadSucceeds(file))
  /\ pc' = "loop"
  /\ UNCHANGED <<envVars, file, inFinally, stop_event, current_pids, terminated_pids,
                 uiVars, sends, sendFailed, cycleStart, cycleLive, firstCycle, fileBefore,
                 cycleClock, stopObserved, exitTracked>>

\* the signals run() registers a handler for
Signals == {"SIGTERM", "SIGINT"}

\* SIGTERM or SIGINT: the handler sets stop_event
Signal(sig) ==
  /\ sig \in Signals
  /\ pc \notin {"load", "stopped", "crashed"}
  /\ stop_event' = TRUE
  /\ UNCHANGED <<envVars, file, pc, inFinally, tracked_processes, current_pids,
                 terminated_pids, uiVars, histVars, fileBefore>>

\* a loop test that never sees the flag
IsSetNever(flag) == FALSE

\* threading.Event.is_set()
IsSet(flag) == flag

\* run(): while not self.stop_event.is_set(); on exit the finally block saves
LoopTest ==
  /\ pc = "loop"
  /\ IF IsSet(stop_event)
     THEN /\ pc' = "save"
          /\ inFinally' = TRUE
          /\ stopObserved' = TRUE
          /\ UNCHANGED <<cycleStart, firstCycle, cycleClock, exitTracked>>
     ELSE /\ pc' = "find"
          /\ cycleStart' = [p \in DOMAIN tracked_processes |->
                               Identity(tracked_processes[p])]
          /\ firstCycle' = FALSE
          /\ cycleClock' = clock
          /\ exitTracked' = (IF firstCycle THEN exitTracked ELSE EmptyMap)
          /\ UNCHANGED <<inFinally, stopObserved>>
  /\ sends' = [p \in AllPids |-> 0]
  /\ sendFailed' = {}
  /\ UNCHANGED <<envVars, file, tracked_processes, stop_event, current_pids,
                 terminated_pids, uiVars, cycleLive, loadFailed, fileBefore>>

\* run(): self.tracked_processes = self.find_python_processes(), and
\* check_process_status takes current_pids
FindPythonProcesses ==
  /\ pc = "find"
  /\ LET live == LivePython
         carried == CarriedPids(tracked_processes, live)
         fresh == {p \in live \ DOMAIN tracked_processes : Accepted(p)}
     IN /\ \E gpu \in [fresh -> GpuInfo] :
             tracked_processes' =
               [p \in carried \cup fresh |->
                  IF p \in carried THEN CarriedEntry(tracked_processes, p)
                  ELSE NewEntry(p, gpu[p])]
        /\ cycleLive' = live
        /\ current_pids' = carried \cup fresh
  /\ terminated_pids' = {}
  /\ pc' = "check"
  /\ UNCHANGED <<envVars, file, inFinally, stop_event, uiVars, sends, sendFailed,
                 cycleStart, firstCycle, loadFailed, fileBefore, cycleClock, stopObserved,
                 exitTracked>>

\* a check_process_status that keeps the entry for another try when
\* send_notification returned False
MarkForRemovalIfSent(terminated, pid, sent) ==
  IF sent THEN terminated \cup {pid} ELSE terminated

\* check_process_status: terminated_pids.append(pid), whatever send_notification returned
MarkForRemoval(terminated, pid, sent) == terminated \cup {pid}

\* a check_process_status that takes every pid it examines for terminated
NoSuchProcessAlways(pid) == TRUE

\* check_process_status: psutil.Process(pid) raises NoSuchProcess
NoSuchProcess(pid) == ~Alive(pid)

\* a check_process_status that refreshes gpu_info only
CheckAliveGpuOnly(pid) ==
  /\ pc = "check"
  /\ pid \in current_pids
  /\ Alive(pid)
  /\ \E gpu \in GpuInfo :
       tracked_processes' = [tracked_processes EXCEPT ![pid].gpu_info = gpu]
  /\ current_pids' = current_pids \ {pid}
  /\ UNCHANGED <<envVars, file, pc, inFinally, stop_event, terminated_pids, uiVars,
                 histVars, fileBefore>>

\* check_process_status: one pid of current_pids, its process found
CheckAlive(pid) ==
  /\ pc = "check"
  /\ pid \in current_pids
  /\ Alive(pid)
  /\ \E gpu \in GpuInfo :
       tracked_processes' = [tracked_processes EXCEPT
                               ![pid].last_checked = clock, ![pid].gpu_info = gpu]
  /\ current_pids' = current_pids \ {pid}
  /\ UNCHANGED <<envVars, file, pc, inFinally, stop_event, terminated_pids, uiVars,
                 histVars, fileBefore>>

\* check_process_status: one pid of current_pids, psutil.Process raised
\* NoSuchProcess; send_notification returns True or False and never raises
CheckTerminated(pid) ==
  /\ pc = "check"
  /\ pid \in current_pids
  /\ NoSuchProcess(pid)
  /\ \E sent \in BOOLEAN :
       /\ sends' = [sends EXCEPT ![pid] = @ + 1]
       /\ sendFailed' = (IF sent THEN sendFailed ELSE sendFailed \cup {pid})
       /\ terminated_pids' = MarkForRemoval(terminated_pids, pid, sent)
  /\ current_pids' = current_pids \ {pid}
  /\ UNCHANGED <<envVars, file, pc, inFinally, tracked_processes, stop_event, uiVars,
                 cycleStart, cycleLive, firstCycle, loadFailed, fileBefore, cycleClock,
                 stopObserved, exitTracked>>

\* a check_process_status that leaves the marked pids in the tracked set
RemoveTerminatedNone ==
  /\ pc = "check"
  /\ current_pids = {}
  /\ tracked_processes' = tracked_processes
  /\ terminated_pids' = {}
  /\ pc' = "save"
  /\ UNCHANGED <<envVars, file, inFinally, stop_event, current_pids, uiVars, histVars, fileBefore>>

\* check_process_status: del self.tracked_processes[pid] for the marked pids
RemoveTerminated ==
  /\ pc = "check"
  /\ current_pids = {}
  /\ tracked_processes' =
       Restrict(tracked_processes, DOMAIN tracked_processes \ terminated_pids)
  /\ terminated_pids' = {}
  /\ pc' = "save"
  /\ UNCHANGED <<envVars, file, inFinally, stop_event, current_pids, uiVars, histVars, fileBefore>>

\* where run() goes on when save_state returns
AfterSave == IF inFinally THEN "stopped" ELSE "sleep"

\* save_state: os.makedirs, outside the try; when it raises in the loop, run()
\* logs and its finally block calls save_state again; when it raises there,
\* the exception leaves run()
SaveMakedirs ==
  /\ pc = "save"
  /\ IF fs = "nodir"
     THEN /\ pc' = (IF inFinally THEN "crashed" ELSE "save")
          /\ inFinally' = TRUE
          /\ UNCHANGED fileBefore
     ELSE /\ pc' = "save_open"
          /\ fileBefore' = file
          /\ UNCHANGED inFinally
  /\ UNCHANGED <<envVars, file, tracked_processes, stop_event, current_pids,
                 terminated_pids, uiVars, sends, sendFailed, cycleStart, cycleLive,
                 firstCycle, loadFailed, cycleClock, stopObserved, exitTracked>>

\* save_state: open(state_file, 'w') truncates the file, or raises and the
\* failure is logged
SaveOpen ==
  /\ pc = "save_open"
  /\ IF fs = "ok"
     THEN /\ file' = TruncatedFile
          /\ pc' = "save_write"
          /\ UNCHANGED fileBefore
     ELSE /\ pc' = AfterSave
          /\ fileBefore' = NoFile
          /\ UNCHANGED file
  /\ UNCHANGED <<envVars, inFinally, tracked_processes, stop_event, current_pids,
                 terminated_pids, uiVars, histVars>>

\* save_state: json.dump writes the next member through to the file
SaveWrite ==
  /\ pc = "save_write"
  /\ Len(file.items) < Len(SerializableState(tracked_processes))
  /\ file.exists
  /\ file' = [file EXCEPT !.items =
                Append(@, SerializableState(tracked_processes)[Len(@) + 1])]
  /\ UNCHANGED <<envVars, daemonVars, uiVars, histVars, fileBefore>>

\* save_state: leaving the with block closes the file, its text complete
SaveClose ==
  /\ pc = "save_write"
  /\ file' = (IF file.exists THEN JsonFile(SerializableState(tracked_processes))
              ELSE file)
  /\ pc' = AfterSave
  /\ fileBefore' = NoFile
  /\ UNCHANGED <<envVars, inFinally, tracked_processes, stop_event, current_pids,
                 terminated_pids, uiVars, histVars>>

\* run(): time.sleep(self.check_interval)
Sleep ==
  /\ pc = "sleep"
  /\ pc' = "loop"
  /\ UNCHANGED <<envVars, file, inFinally, tracked_processes, stop_event, current_pids,
                 terminated_pids, uiVars, histVars, fileBefore>>

\* main(): run() has returned or raised and the service is started again;
\* os.makedirs of the state directory, then a new MLMonitorDaemon and run()
Restart ==
  /\ pc \in {"stopped", "crashed"}
  /\ fs # "nodir"
  /\ pc' = "load"
  /\ inFinally' = FALSE
  /\ tracked_processes' = EmptyMap
  /\ stop_event' = FALSE
  /\ current_pids' = {}
  /\ terminated_pids' = {}
  /\ sends' = [p \in AllPids |-> 0]
  /\ sendFailed' = {}
  /\ cycleStart' = EmptyMap
  /\ cycleLive' = {}
  /\ firstCycle' = TRUE
  /\ loadFailed' = FALSE
  /\ cycleClock' = clock
  /\ stopObserved' = FALSE
  /\ exitTracked' = tracked_processes
  /\ UNCHANGED <<envVars, file, uiVars, fileBefore>>

(* ---------------------------- MLMonitorUI ------------------------------ *)

\* get_process_stats merged into the loaded entry by dict.update
UiEntry(info, running) ==
  [cmdline |-> info.cmdline,
   start_time |-> info.start_time,
   username |-> info.username,
   last_checked |-> info.last_checked,
   gpu_info |-> info.gpu_info,
   running |-> running,
   status |-> IF running THEN "running" ELSE "terminated"]

\* an update_process_list that never deletes an entry
DisplayedPidsUnpruned(state, all) == DOMAIN state

\* update_process_list: the entries left after the loop over the loaded pids
DisplayedPids(state, all) == {p \in DOMAIN state : Alive(p) \/ all}

\* save_state has opened the state file and not yet closed it
SaveInProgress == pc \in {"save_open", "save_write"}

\* an update_process_list that writes the list it has pruned back to the
\* state file
UpdateProcessListWritesBack ==
  /\ LET daemon_state == LoadDaemonStateResult(file)
         shown == DisplayedPids(daemon_state, show_all)
     IN /\ ui_tracked' = [p \in shown |-> UiEntry(daemon_state[p], Alive(p))]
        /\ file' = JsonFile(SerializableState(Restrict(daemon_state, shown)))
  /\ UNCHANGED <<envVars, daemonVars, show_all, sort_by, sort_reverse, histVars,
                 fileBefore>>

\* update_process_list: one refresh of the viewer
UpdateProcessList ==
  /\ LET daemon_state == LoadDaemonStateResult(file)
     IN ui_tracked' = [p \in DisplayedPids(daemon_state, show_all) |->
                         UiEntry(daemon_state[p], Alive(p))]
  /\ UNCHANGED <<envVars, file, daemonVars, show_all, sort_by, sort_reverse, histVars,
                 fileBefore>>

\* run(): key 'a' toggles show_all
ToggleShowAll ==
  /\ show_all' = ~show_all
  /\ UNCHANGED <<envVars, file, daemonVars, ui_tracked, sort_by, sort_reverse, histVars,
                 fileBefore>>

\* run(): the sort keys that key 's' cycles through
SortOptions == <<"cpu", "memory", "time", "gpu">>

\* sort_options.index(self.sort_by)
SortIndex(key) == CHOOSE i \in 1..Len(SortOptions) : SortOptions[i] = key

\* run(): key 's' moves sort_by to the next sort key
CycleSort ==
  /\ sort_by' = SortOptions[(SortIndex(sort_by) % Len(SortOptions)) + 1]
  /\ UNCHANGED <<envVars, file, daemonVars, ui_tracked, show_all, sort_reverse, histVars,
                 fileBefore>>

\* run(): key 'r' toggles sort_reverse
ToggleSortReverse ==
  /\ sort_reverse' = ~sort_reverse
  /\ UNCHANGED <<envVars, file, daemonVars, ui_tracked, show_all, sort_by, histVars,
                 fileBefore>>

(* ------------------------- initial state files ------------------------- *)

\* a member as an earlier run of the daemon wrote it
SavedItem(pid) ==
  SerializeEntry(pid, [cmdline |-> "train.py", start_time |-> 0, username |-> "al",
                       last_checked |-> 0, gpu_info |-> "None"])

\* a member without its 'username' field
ItemMissingField(pid) ==
  [key |-> PidStr(pid),
   info |-> [cmdline |-> "train.py", start_time |-> IsoFormat(0),
             last_checked |-> IsoFormat(0), gpu_info |-> JsonValue("None")]]

\* a member whose start_time is no ISO-8601 text
ItemBadTimestamp(pid) ==
  [SavedItem(pid) EXCEPT !.info.start_time = [text |-> "yesterday"]]

\* a member whose key is no decimal number
ItemBadPid ==
  [SavedItem(1) EXCEPT !.key = [text |-> "abc"]]

\* the state file the daemon finds when it starts
InitFiles ==
  { NoFile,
    TruncatedFile,
    JsonFile(<<SavedItem(SelfPid)>>),
    JsonFile(<<SavedItem(1)>>),
    JsonFile(<<SavedItem(1), ItemMissingField(2)>>),
    JsonFile(<<ItemBadTimestamp(1), SavedItem(2)>>),
    JsonFile(<<SavedItem(2), ItemBadPid>>) }

(* --------------------------- specification ----------------------------- *)

Init ==
  /\ procs = [p \in Pids |-> NoProc]
  /\ clock = 0
  /\ gpuTool \in {"absent", "present"}
  /\ fs = "ok"
  /\ file \in InitFiles
  /\ pc = "load"
  /\ inFinally = FALSE
  /\ tracked_processes = EmptyMap
  /\ stop_event = FALSE
  /\ current_pids = {}
  /\ terminated_pids = {}
  /\ ui_tracked = EmptyMap
  /\ show_all = FALSE
  /\ sends = [p \in AllPids |-> 0]
  /\ sendFailed = {}
  /\ cycleStart = EmptyMap
  /\ cycleLive = {}
  /\ firstCycle = TRUE
  /\ loadFailed = FALSE
  /\ fileBefore = NoFile
  /\ sort_by = "cpu"
  /\ sort_reverse = TRUE
  /\ cycleClock = 0
  /\ stopObserved = FALSE
  /\ exitTracked = EmptyMap

\* the steps of the daemon's own thread
DaemonStep ==
  \/ LoadState
  \/ LoopTest
  \/ FindPythonProcesses
  \/ \E pid \in AllPids : CheckAlive(pid)
  \/ \E pid \in AllPids : CheckTerminated(pid)
  \/ RemoveTerminated
  \/ SaveMakedirs
  \/ SaveOpen
  \/ SaveWrite
  \/ SaveClose
  \/ Sleep

\* the daemon's steps and the signals delivered to it
Daemon ==
  \/ DaemonStep
  \/ \E sig \in Signals : Signal(sig)

\* the viewer's steps
Viewer ==
  \/ UpdateProcessList
  \/ ToggleShowAll

\* the viewer's sort keys
ViewerSort ==
  \/ CycleSort
  \/ ToggleSortReverse

\* the pid that processes come and go under while the clock runs
TimePids == {1}

\* Spec: the daemon's poll cycles against a changing process table, from any
\* of the initial state files
Next ==
  \/ \E pid \in Pids : Spawn(pid, ProcNames, ParentKinds, {"train.py"})
  \/ \E pid \in Pids : Exit(pid)
  \/ Daemon

InitSpec == Init /\ gpuTool = "absent"

Spec == InitSpec /\ [][Next]_vars

\* SpecTime: the clock runs while processes come and go under the same pids
InitTime ==
  /\ Init
  /\ gpuTool = "present"
  /\ file \in {NoFile, JsonFile(<<SavedItem(1)>>)}

NextTime ==
  \/ \E pid \in TimePids : Spawn(pid, {"python3", "bash"}, {"bash"}, Cmdlines)
  \/ \E pid \in TimePids : Exit(pid)
  \/ Tick
  \/ Daemon

SpecTime == InitTime /\ [][NextTime]_vars

\* SpecRestart: as SpecTime, and a daemon that has ended is started again
NextRestart ==
  \/ NextTime
  \/ Restart

SpecRestart == InitTime /\ [][NextRestart]_vars

\* SpecStore: the daemon, the viewer and the state directory share the state
\* file; processes are top-level python3 runs of one command
InitStore ==
  /\ Init
  /\ gpuTool = "absent"
  /\ file \in {NoFile, JsonFile(<<SavedItem(1)>>)}

NextStore ==
  \/ \E pid \in Pids : Spawn(pid, {"python3"}, {"bash"}, {"train.py"})
  \/ \E pid \in Pids : Exit(pid)
  \/ \E v \in {"ok", "readonly", "nodir"} : SetFs(v)
  \/ Daemon
  \/ Viewer

SpecStore == InitStore /\ [][NextStore]_vars

\* the clock values
Times == 0..MaxClock

\* the entries a tracked set can hold: last_checked is taken from the clock
\* no earlier than the process was created
Entries ==
  {e \in [cmdline : Cmdlines, start_time : Times, username : Users,
          last_checked : Times, gpu_info : GpuVals] :
     e.start_time <= e.last_checked}

\* the tracked sets over the pids the daemon can come to hold
TrackedSets == UNION {[S -> Entries] : S \in SUBSET AllPids}

\* SpecRound: a daemon with any tracked set makes its final save_state, and a
\* new daemon instance loads the file
InitRound ==
  /\ procs = [p \in Pids |-> NoProc]
  /\ clock = 0
  /\ gpuTool = "present"
  /\ fs = "ok"
  /\ file \in {NoFile, JsonFile(<<SavedItem(1)>>)}
  /\ pc = "save"
  /\ inFinally = TRUE
  /\ tracked_processes \in TrackedSets
  /\ stop_event = TRUE
  /\ current_pids = {}
  /\ terminated_pids = {}
  /\ ui_tracked = EmptyMap
  /\ show_all = FALSE
  /\ sort_by = "cpu"
  /\ sort_reverse = TRUE
  /\ sends = [p \in AllPids |-> 0]
  /\ sendFailed = {}
  /\ cycleStart = EmptyMap
  /\ cycleLive = {}
  /\ firstCycle = FALSE
  /\ loadFailed = FALSE
  /\ fileBefore = NoFile
  /\ cycleClock = 0
  /\ stopObserved = TRUE
  /\ exitTracked = EmptyMap

NextRound ==
  \/ SaveMakedirs
  \/ SaveOpen
  \/ SaveWrite
  \/ SaveClose
  \/ Restart
  \/ LoadState

SpecRound == InitRound /\ [][NextRound]_vars

\* SpecView: the daemon and the viewer with all its keys, the state directory
\* writable throughout
NextView ==
  \/ \E pid \in Pids : Spawn(pid, {"python3"}, {"bash"}, {"train.py"})
  \/ \E pid \in Pids : Exit(pid)
  \/ Daemon
  \/ Viewer
  \/ ViewerSort

SpecView == InitStore /\ [][NextView]_vars

\* SpecStop: the daemon and the state directory, the daemon's thread always
\* taking its next step (every call it makes returns)
NextStop ==
  \/ \E pid \in Pids : Spawn(pid, {"python3"}, {"bash"}, {"train.py"})
  \/ \E pid \in Pids : Exit(pid)
  \/ \E v \in {"ok", "readonly", "nodir"} : SetFs(v)
  \/ Daemon

SpecStop == InitStore /\ [][NextStop]_vars /\ WF_vars(DaemonStep)

(* ------------------------------- claims -------------------------------- *)

\* the reconcile phase of a poll cycle (find_python_processes, then
\* check_process_status) is over, in the loop
CycleEnded == pc \in {"save", "save_open", "save_write", "sleep"} /\ ~inFinally

\* C1: every pid tracked when a poll cycle began and absent from that cycle's
\* live python processes got exactly one send_notification call in the cycle.
C1_ExactlyOnceTermination ==
  CycleEnded => \A p \in DOMAIN cycleStart \ cycleLive : sends[p] = 1

\* C2: once a cycle's find_python_processes has run, the tracked set holds no
\* pid that was absent from that cycle's live snapshot, and a pid outside the
\* tracked set enters it only through load_state at startup or as a newly
\* seen process that passes the own-pid and parent tests.
C2_NeverCarriedForward ==
  /\ [](~firstCycle /\ pc # "find" => DOMAIN tracked_processes \subseteq cycleLive)
  /\ [][\A p \in AllPids :
          (p \notin DOMAIN tracked_processes /\ p \in DOMAIN tracked_processes')
            => \/ pc = "load"
               \/ pc = "find" /\ p \in LivePython /\ Accepted(p)]_vars

\* C2's case: a cycle ended having dropped a pid that was tracked when it began
\* and absent from its snapshot
C2_Witness ==
  /\ CycleEnded
  /\ \E p \in DOMAIN cycleStart : p \notin cycleLive /\ p \notin DOMAIN tracked_processes

\* C3: send_notification is called at most once for a tracked entry, and an
\* entry it was called for, whatever it returned, is marked for removal and
\* gone from the tracked set when check_process_status returns, so that no
\* later cycle finds it to notify again.
C3_AtMostOnceNeverRetried ==
  \A p \in AllPids :
    /\ sends[p] <= 1
    /\ (sends[p] = 1 /\ p \in DOMAIN tracked_processes)
         => (pc = "check" /\ p \in terminated_pids)

\* C3's case: a notification failed and the cycle ended with the entry removed
C3_Witness ==
  /\ CycleEnded
  /\ \E p \in sendFailed : sends[p] = 1 /\ p \notin DOMAIN tracked_processes

\* C4: an entry tracked when a cycle began and still tracked keeps the
\* start_time, username and cmdline it had when the cycle began.
C4_IdentityContinuity ==
  \A p \in DOMAIN cycleStart \cap DOMAIN tracked_processes :
    Identity(tracked_processes[p]) = cycleStart[p]

\* C4's case: a cycle ended with an entry retained that an earlier cycle had
\* created (no initial state file holds the command "Unknown"), its
\* last_checked refreshed, while the pid now belongs to another process
C4_Witness ==
  /\ CycleEnded
  /\ \E p \in (DOMAIN cycleStart \cap DOMAIN tracked_processes) \ {SelfPid} :
       /\ tracked_processes[p].cmdline = "Unknown"
       /\ tracked_processes[p].last_checked > tracked_processes[p].start_time
       /\ procs[p] # NoProc
       /\ procs[p].cmdline = "train.py"
       /\ procs[p].ctime # tracked_processes[p].start_time

\* C5: find_python_processes never returns, in the set the daemon then tracks,
\* a python process whose parent is python-named at that time.
C5_ChildExclusion ==
  [][(pc = "find" /\ pc' = "check") =>
       \A p \in Pids :
         (procs[p] # NoProc /\ procs[p].name \in PythonNames
            /\ procs[p].parent \in PythonNames)
           => p \notin DOMAIN tracked_processes']_vars

\* C6: once a cycle's find_python_processes has run, the daemon's own pid is
\* not tracked, also in the first cycle after load_state restored it.
C6_SelfExclusion ==
  (~firstCycle /\ pc # "find") => SelfPid \notin DOMAIN tracked_processes

\* C7: a viewer refresh that reads the state file while save_state has it open
\* reads the file as save_state found it or the complete new snapshot.
C7_AtomicReplace ==
  [][(UpdateProcessList /\ SaveInProgress /\ file.exists)
       => \/ file = fileBefore
          \/ file = JsonFile(SerializableState(tracked_processes))]_vars

\* C8: a viewer refresh whose load fails to deserialize the state file leaves
\* the displayed list as the previous refresh left it.
C8_FailedReadKeepsList ==
  [][(UpdateProcessList /\ file.exists /\ ~LoadSucceeds(file))
       => ui_tracked' = ui_tracked]_vars

\* C9: when load_state failed on an existing state file, the tracked set is
\* empty until the first poll cycle begins.
C9_MalformedFileEmptyState ==
  (loadFailed /\ firstCycle) => DOMAIN tracked_processes = {}

\* C10: the daemon leaves its poll loop only when the stop flag is set, never
\* because a notification, a GPU query or a save failed.
C10_LoopSurvivesFailures ==
  (inFinally \/ pc \in {"stopped", "crashed"}) => stop_event

C12_MissingFileTolerated ==
  [][/\ (pc = "load" /\ pc' # "load" /\ ~file.exists)
          => (pc' = "loop" /\ tracked_processes' = EmptyMap /\ ~loadFailed')
     /\ (~file.exists /\ ui_tracked' # ui_tracked) => ui_tracked' = EmptyMap]_vars

\* C12's case: there is no state file, the daemon has run load_state and not
\* begun a cycle, and the viewer, show_all on, lists nothing
C12_Witness ==
  /\ pc = "loop"
  /\ firstCycle
  /\ ~file.exists
  /\ fs = "ok"
  /\ tracked_processes = EmptyMap
  /\ ui_tracked = EmptyMap
  /\ show_all

\* C13: when the loop test has found the stop flag set, no pid of the cycle
\* before is left unexamined or marked and not removed, and at the step
\* that ends run() the state file holds exactly the tracked set in memory.
C13_FinalPersistOnStop ==
  [][/\ (pc = "loop" /\ stopObserved')
          => (current_pids = {} /\ terminated_pids = {} /\ pc' = "save")
     /\ (stopObserved /\ pc \notin {"stopped", "crashed"}
           /\ pc' \in {"stopped", "crashed"})
          => file' = JsonFile(SerializableState(tracked_processes'))]_vars

\* C14: a SIGTERM and a SIGINT both leave stop_event set, no step clears the
\* flag once it is set, with the flag set no poll cycle begins, and run()
\* then comes to its end.
C14_GracefulStop ==
  /\ [][/\ \A sig \in Signals : Signal(sig) => stop_event'
        /\ stop_event => stop_event'
        /\ (stop_event /\ pc' = "find") => pc = "find"]_vars
  /\ (stop_event ~> pc \in {"stopped", "crashed"})

\* C14's case: the flag was set after a cycle had begun, the loop test saw
\* it and run() has returned with entries tracked
C14_Witness ==
  /\ stop_event
  /\ stopObserved
  /\ pc = "stopped"
  /\ ~firstCycle
  /\ DOMAIN tracked_processes # {}

\* C15: a step that changes anything of the viewer (the displayed list, pruned
\* of not-running entries or not, show_all, sort_by, sort_reverse) leaves the
\* state file as it is, and the state file changes only in a step of
\* save_state between its open and its close.
C15_SingleWriter ==
  [][/\ (uiVars' # uiVars) => file' = file
     /\ (UpdateProcessList \/ ToggleShowAll \/ CycleSort \/ ToggleSortReverse)
          => file' = file
     /\ (file' # file) => (pc \in {"save_open", "save_write"} /\ uiVars' = uiVars)]_vars

\* C15's case: the viewer has refreshed to a list with a terminated entry
\* under another sort key, direction and show_all setting, beside a state
\* file that the daemon has since written without that entry
C15_Witness ==
  /\ sort_by = "time"
  /\ ~sort_reverse
  /\ show_all
  /\ \E p \in DOMAIN ui_tracked : ~ui_tracked[p].running
  /\ file.exists
  /\ LoadSucceeds(file)
  /\ DOMAIN LoadDaemonStateResult(file) # DOMAIN ui_tracked

\* C16 as stated: send_notification is never called for a pid whose process
\* is alive when check_process_status examines it, and a pid tracked when a
\* cycle began and present in the cycle's snapshot is still tracked, with no
\* notification, when the cycle's reconcile phase is over.
C16_NoSpuriousNotice ==
  /\ [][\A p \in AllPids : (sends'[p] > sends[p]) => ~Alive(p)]_vars
  /\ [](CycleEnded =>
          \A p \in DOMAIN cycleStart \cap cycleLive :
            p \in DOMAIN tracked_processes /\ sends[p] = 0)

\* C16 as amended: send_notification is never called for a pid whose process
\* is alive when check_process_status examines it; such a pid is not marked
\* for removal, stays tracked, and the removal at the end of
\* check_process_status takes only marked pids.
C16_NoNoticeWhileAlive ==
  [][/\ \A p \in AllPids : (sends'[p] > sends[p]) => ~Alive(p)
     /\ \A p \in current_pids \ current_pids' :
          Alive(p) => /\ sends' = sends
                      /\ p \notin terminated_pids'
                      /\ p \in DOMAIN tracked_processes'
     /\ \A p \in terminated_pids' \ terminated_pids : ~Alive(p)
     /\ (pc = "check" /\ pc' = "save")
          => DOMAIN tracked_processes' = DOMAIN tracked_processes \ terminated_pids]_vars

\* C16's case: a cycle ended with a pid that was tracked when it began, was in
\* its snapshot and is alive, still tracked and not notified of
C16_Witness ==
  /\ CycleEnded
  /\ \E p \in (DOMAIN cycleStart \cap cycleLive) \cap DOMAIN tracked_processes :
       /\ p # SelfPid
       /\ Alive(p)
       /\ sends[p] = 0

\* C17: in the first cycle of a daemon instance that loaded the state its
\* predecessor saved, every entry of the predecessor is loaded, those whose
\* pid is in the cycle's snapshot are carried, and every such entry still
\* tracked has the start_time, username and cmdline the predecessor held;
\* and whenever check_process_status finds the process of a tracked pid
\* alive, the entry's start_time is that process's creation time.
C17_StartTimeIsCreationTime ==
  /\ []((pc = "loop" /\ firstCycle) => DOMAIN exitTracked \subseteq DOMAIN tracked_processes)
  /\ [](\A p \in DOMAIN exitTracked \cap DOMAIN tracked_processes :
          Identity(tracked_processes[p]) = Identity(exitTracked[p]))
  /\ [][/\ (pc = "find")
             => (DOMAIN exitTracked \cap LivePython) \subseteq DOMAIN tracked_processes'
        /\ \A p \in (current_pids \ current_pids') \ {SelfPid} :
             Alive(p) => tracked_processes'[p].start_time = procs[p].ctime]_vars

\* C18: when a cycle's reconcile phase is over, every entry still tracked has
\* a last_checked taken from the clock within that cycle, and the last_checked
\* of an entry that stays tracked never decreases.
C18_LastCheckedRefreshed ==
  /\ [](CycleEnded =>
          \A p \in DOMAIN tracked_processes :
            /\ cycleClock <= tracked_processes[p].last_checked
            /\ tracked_processes[p].last_checked <= clock)
  /\ [][\A p \in DOMAIN tracked_processes \cap DOMAIN tracked_processes' :
          tracked_processes[p].last_checked <= tracked_processes'[p].last_checked]_vars

\* C18's case: a cycle that began after the clock had advanced ended with an
\* entry retained that was tracked, with an earlier last_checked, when it began
C18_Witness ==
  /\ CycleEnded
  /\ cycleClock > 0
  /\ \E p \in DOMAIN cycleStart \cap DOMAIN tracked_processes :
       /\ tracked_processes[p].start_time < cycleClock
       /\ tracked_processes[p].last_checked >= cycleClock

\* C19: when find_python_processes runs, a python-named process that is not
\* the daemon and not tracked, and whose parent lookup raises NoSuchProcess or
\* AccessDenied, is in the tracked set that find_python_processes returns,
\* with its own command line, creation time and user.
C19_UninspectableParentAccepted ==
  [][(pc = "find" /\ pc' = "check") =>
       \A p \in Pids \ {SelfPid} :
         (/\ procs[p] # NoProc
          /\ procs[p].name \in PythonNames
          /\ p \notin DOMAIN tracked_processes
          /\ procs[p].parent \in LookupFailures)
           => /\ p \in DOMAIN tracked_processes'
              /\ p \in current_pids'
              /\ tracked_processes'[p].cmdline = procs[p].cmdline
              /\ tracked_processes'[p].start_time = procs[p].ctime
              /\ tracked_processes'[p].username = procs[p].username]_vars

\* C19's case: the cycle has examined and kept a process it began to track,
\* whose parent lookup is denied
C19_Witness ==
  /\ pc = "check"
  /\ \E p \in DOMAIN tracked_processes \ (DOMAIN cycleStart \cup current_pids) :
       /\ procs[p] # NoProc
       /\ procs[p].name \in PythonNames
       /\ procs[p].parent = "AccessDenied"
       /\ p \notin terminated_pids

\* C20: a viewer refresh with show_all off leaves no entry marked not running
\* in the displayed list; a refresh with show_all on leaves an entry for
\* exactly the pids of the state file's members (none when the file is missing
\* or does not load), those whose pid resolves to no process marked
\* running = False, status 'terminated'.
C20_ShowTerminatedFilter ==
  [][UpdateProcessList =>
       LET loaded == IF file.exists /\ LoadSucceeds(file)
                     THEN {ParsePid(file.items[i].key) : i \in 1..Len(file.items)}
                     ELSE {}
       IN /\ ~show_all =>
               /\ \A p \in DOMAIN ui_tracked' : ui_tracked'[p].running
               /\ DOMAIN ui_tracked' = {p \in loaded : Alive(p)}
          /\ show_all =>
               /\ DOMAIN ui_tracked' = loaded
               /\ \A p \in loaded :
                    ~Alive(p) => /\ ui_tracked'[p].running = FALSE
                                 /\ ui_tracked'[p].status = "terminated"]_vars

\* C20's case: show_all is on and the displayed list has the state file's
\* pids, one of them of an ended process and marked not running
C20_Witness ==
  /\ show_all
  /\ LoadSucceeds(file)
  /\ DOMAIN ui_tracked = DOMAIN LoadDaemonStateResult(file)
  /\ \E p \in DOMAIN ui_tracked : ~Alive(p) /\ ~ui_tracked[p].running

\* C21: when the save_state of a poll cycle closes the file it has written,
\* the file loads, the pids of its members are exactly the pids tracked in
\* memory, and none of them is a pid the cycle called send_notification for.
C21_SnapshotMatchesMemory ==
  [][(pc = "save_write" /\ pc' = "sleep" /\ file'.exists) =>
       LET saved == {ParsePid(file'.items[i].key) : i \in 1..Len(file'.items)}
       IN /\ LoadSucceeds(file')
          /\ saved = DOMAIN tracked_processes'
          /\ \A p \in AllPids : sends[p] >= 1 => p \notin saved]_vars

\* C21's case: a cycle that found a pid tracked at its start terminated has
\* saved a file without that pid, whose pids are those in memory
C21_Witness ==
  /\ pc = "sleep"
  /\ LoadSucceeds(file)
  /\ DOMAIN LoadDaemonStateResult(file) = DOMAIN tracked_processes
  /\ \E p \in DOMAIN cycleStart :
       /\ sends[p] = 1
       /\ p \notin DOMAIN tracked_processes
       /\ p \notin DOMAIN LoadDaemonStateResult(file)

====
